---------------------------- MODULE Spec2Model ----------------------------
(***************************************************************************)
(* Klondike solitaire rules engine (hsyed/vibe-solitaire-rs).              *)
(*                                                                         *)
(* The state is the GameState struct of src/game/state.rs; every           *)
(* GameAction variant dispatched by GameState::handle_action is one        *)
(* action.  `action` and `result` record the argument and the return       *)
(* value of the last handle_action call.  start_time (a wall-clock stamp   *)
(* that no decision reads) is not modelled.  drag_state is the field of    *)
(* SolitaireApp (src/main.rs), which owns the GameState and turns a drag   *)
(* and its drop into a MoveCard.                                           *)
(***************************************************************************)
EXTENDS Integers, Sequences, FiniteSets, TLC

VARIABLES tableau, foundations, stock, waste, move_count, game_won,
          draw_count, action, result, drag_state

vars == <<tableau, foundations, stock, waste, move_count, game_won,
          draw_count, action, result, drag_state>>

----------------------------------------------------------------------------
(* Bounds of the exploration *)

\* number of distinct shuffles the random source can produce
NumShuffles == 2
\* move_count is capped here (it is a u32 in the program)
MaxMoves == 26
\* Position arguments range over columns 0..MaxCol and indices 0..MaxIdx
MaxCol == 7
MaxIdx == 7
\* test fixtures: cards popped off one tableau column, stock cut to 0..MaxCut,
\* and at most MaxTestMoves counted moves explored from them
MaxPops == 1
MaxCut == 3
MaxTestMoves == 4
\* counted moves explored around a drag
MaxDragMoves == 3

----------------------------------------------------------------------------
(* Card model: src/game/card.rs *)

NumColumns == 7
NumFoundations == 4

Suit_all == <<"Hearts", "Diamonds", "Clubs", "Spades">>

Rank_all == <<1, 2, 3, 4, 5, 6, 7, 8, 9, 10, 11, 12, 13>>

Card_new(suit, rank, face_up) ==
    [suit |-> suit, rank |-> rank, face_up |-> face_up]

is_red(card) == card.suit \in {"Hearts", "Diamonds"}

is_black(card) == card.suit \in {"Clubs", "Spades"}

\* mutant of can_place_on_tableau: the face of the target is not looked at
can_place_on_tableau_any_face(card, other) ==
    LET colors_alternate ==
            \/ is_red(card) /\ is_black(other)
            \/ is_black(card) /\ is_red(other)
        rank_valid == card.rank = other.rank - 1
    IN colors_alternate /\ rank_valid

can_place_on_tableau(card, other) ==
    IF ~other.face_up THEN FALSE
    ELSE LET colors_alternate ==
                 \/ is_red(card) /\ is_black(other)
                 \/ is_black(card) /\ is_red(other)
             rank_valid == card.rank = other.rank - 1
         IN colors_alternate /\ rank_valid

\* mutant of can_place_on_foundation: the suits are not compared
can_place_on_foundation_any_suit(card, foundation_top) ==
    IF foundation_top = <<>> THEN card.rank = 1
    ELSE card.rank = foundation_top[1].rank + 1

\* foundation_top is an Option<&Card>: <<>> for None, <<top>> for Some(top)
can_place_on_foundation(card, foundation_top) ==
    IF foundation_top = <<>> THEN card.rank = 1
    ELSE /\ card.suit = foundation_top[1].suit
         /\ card.rank = foundation_top[1].rank + 1

\* mutant of flip: the card is turned face-up instead of turned over
flip_face_up(card) == [card EXCEPT !.face_up = TRUE]

\* flip(&mut self): the card as the call leaves it
flip(card) == [card EXCEPT !.face_up = ~card.face_up]

flipped(card) == Card_new(card.suit, card.rank, ~card.face_up)

\* mutant of create_deck: the loops are nested the other way round
create_deck_rank_major ==
    [i \in 1..(Len(Suit_all) * Len(Rank_all)) |->
        Card_new(Suit_all[((i - 1) % Len(Suit_all)) + 1],
                 Rank_all[((i - 1) \div Len(Suit_all)) + 1],
                 FALSE)]

\* nested loop: for suit in Suit::all() { for rank in Rank::all() { push } }
create_deck ==
    [i \in 1..(Len(Suit_all) * Len(Rank_all)) |->
        Card_new(Suit_all[((i - 1) \div Len(Rank_all)) + 1],
                 Rank_all[((i - 1) % Len(Rank_all)) + 1],
                 FALSE)]

\* deck.shuffle(&mut rng): some permutation of the deck.  The k-th shuffle
\* of the bounded family is the affine permutation i -> stride*i + k.
ShuffleStride == <<1, 25, 5, 3, 7, 9, 11>>

shuffle(deck, k) ==
    [i \in 1..Len(deck) |->
        deck[((ShuffleStride[(k % Len(ShuffleStride)) + 1] * (i - 1) + k)
                % Len(deck)) + 1]]

DrawCount == {"One", "Three"}

----------------------------------------------------------------------------
(* Position and GameAction: src/game/state.rs, src/game/actions.rs *)

Tableau(col, idx) == [kind |-> "Tableau", col |-> col, idx |-> idx]
Foundation(pile) == [kind |-> "Foundation", pile |-> pile]
StockPos == [kind |-> "Stock"]
Waste(idx) == [kind |-> "Waste", idx |-> idx]

Position ==
    {Tableau(col, idx) : col \in 0..MaxCol, idx \in 0..MaxIdx}
      \cup {Foundation(p) : p \in 0..NumFoundations}
      \cup {StockPos}
      \cup {Waste(i) : i \in 0..1}

\* MoveCard ignores both of its positions (_from, _to): a few of each kind
MovePosition == {Tableau(0, 0), Foundation(0), Waste(0)}

\* GameAction values
MoveCardAction(from, to) == [kind |-> "MoveCard", from |-> from, to |-> to]
FlipCardAction(position) == [kind |-> "FlipCard", position |-> position]
DealFromStockAction == [kind |-> "DealFromStock"]
NewGameAction == [kind |-> "NewGame"]
UndoAction == [kind |-> "Undo"]

\* Result<(), String>: Ok(()) or one of the error strings of state.rs
Ok == "Ok"
EmptyPiles == "Both stock and waste are empty"
InvalidColumn == "Invalid tableau column"
InvalidIndex == "Invalid card index in tableau"
NotTopCard == "Can only flip the top card"
AlreadyFaceUp == "Card is already face-up"
WrongPileKind == "Can only flip cards in tableau"
MoveNotImplemented == "Card moving not implemented yet"
UndoNotImplemented == "Undo not implemented yet"
\* the call does not return: index out of bounds, or subtraction overflow
Panic == "panic"

----------------------------------------------------------------------------
(* GameState: src/game/state.rs *)

\* Sequence helpers for Vec: pop takes the last element, piles are 1-based
\* here and 0-based in the program.
Last(s) == s[Len(s)]
Front(s) == SubSeq(s, 1, Len(s) - 1)

\* Vec::last: None on an empty pile
Vec_last(pile) == IF pile = <<>> THEN <<>> ELSE <<Last(pile)>>

\* cards dealt to the columns before column col (card_index at its start)
RECURSIVE card_index_at(_)
card_index_at(col) == IF col = 0 THEN 0 ELSE card_index_at(col - 1) + col

\* mutant of new: the first card dealt to a column is the face-up one
new_first_face_up(deck) ==
    [tableau |->
        [col \in 0..(NumColumns - 1) |->
            [row \in 1..(col + 1) |->
                [deck[card_index_at(col) + row]
                    EXCEPT !.face_up = ((row - 1) = 0)]]],
     foundations |-> [f \in 0..(NumFoundations - 1) |-> <<>>],
     stock |-> SubSeq(deck, card_index_at(NumColumns) + 1, Len(deck)),
     waste |-> <<>>,
     move_count |-> 0,
     game_won |-> FALSE,
     draw_count |-> "Three"]

\* mutant of new: the game starts flagged as won
new_won(deck) ==
    [tableau |->
        [col \in 0..(NumColumns - 1) |->
            [row \in 1..(col + 1) |->
                [deck[card_index_at(col) + row]
                    EXCEPT !.face_up = ((row - 1) = col)]]],
     foundations |-> [f \in 0..(NumFoundations - 1) |-> <<>>],
     stock |-> SubSeq(deck, card_index_at(NumColumns) + 1, Len(deck)),
     waste |-> <<>>,
     move_count |-> 0,
     game_won |-> TRUE,
     draw_count |-> "Three"]

\* GameState::new with the shuffled deck made explicit
new(deck) ==
    [tableau |->
        [col \in 0..(NumColumns - 1) |->
            [row \in 1..(col + 1) |->
                [deck[card_index_at(col) + row]
                    EXCEPT !.face_up = ((row - 1) = col)]]],
     foundations |-> [f \in 0..(NumFoundations - 1) |-> <<>>],
     stock |-> SubSeq(deck, card_index_at(NumColumns) + 1, Len(deck)),
     waste |-> <<>>,
     move_count |-> 0,
     game_won |-> FALSE,
     draw_count |-> "Three"]

\* mutant of new_with_draw_count: the argument is dropped
new_with_draw_count_ignored(d, deck) == new(deck)

new_with_draw_count(d, deck) == [new(deck) EXCEPT !.draw_count = d]

\* mutant of recycle_waste: the cards go back without being turned face-down
RECURSIVE recycle_waste_face_up(_, _)
recycle_waste_face_up(stk, wst) ==
    IF wst = <<>> THEN [stock |-> stk, waste |-> wst]
    ELSE recycle_waste_face_up(Append(stk, Last(wst)), Front(wst))

\* mutant of recycle_waste: the waste is drained front to back, keeping its
\* order in the stock
RECURSIVE recycle_waste_same_order(_, _)
recycle_waste_same_order(stk, wst) ==
    IF wst = <<>> THEN [stock |-> stk, waste |-> wst]
    ELSE recycle_waste_same_order(
             Append(stk, [Head(wst) EXCEPT !.face_up = FALSE]), Tail(wst))

\* while let Some(mut card) = self.waste.pop() { face_up = false; push }
RECURSIVE recycle_waste(_, _)
recycle_waste(stk, wst) ==
    IF wst = <<>> THEN [stock |-> stk, waste |-> wst]
    ELSE recycle_waste(Append(stk, [Last(wst) EXCEPT !.face_up = FALSE]),
                       Front(wst))

\* mutant of cards_to_deal: 3.max(len) for 3.min(len)
cards_to_deal_max(d, stock_len) ==
    IF d = "One" THEN 1 ELSE IF 3 < stock_len THEN stock_len ELSE 3

cards_to_deal(d, stock_len) ==
    IF d = "One" THEN 1 ELSE IF 3 < stock_len THEN 3 ELSE stock_len

\* mutant of deal_cards: the card is read with last() and never popped
RECURSIVE deal_cards_no_pop(_, _, _)
deal_cards_no_pop(stk, wst, n) ==
    IF n = 0 \/ stk = <<>> THEN [stock |-> stk, waste |-> wst]
    ELSE deal_cards_no_pop(stk,
                           Append(wst, [Last(stk) EXCEPT !.face_up = TRUE]),
                           n - 1)

\* mutant of deal_cards: the dealt card is not turned face-up
RECURSIVE deal_cards_face_down(_, _, _)
deal_cards_face_down(stk, wst, n) ==
    IF n = 0 \/ stk = <<>> THEN [stock |-> stk, waste |-> wst]
    ELSE deal_cards_face_down(Front(stk), Append(wst, Last(stk)), n - 1)

\* for _ in 0..cards_to_deal { if let Some(mut card) = self.stock.pop() .. }
\* mutant of deal_cards: the cards move as a block and keep their stock order
deal_cards_as_block(stk, wst, n) ==
    LET k == IF n < Len(stk) THEN n ELSE Len(stk)
    IN [stock |-> SubSeq(stk, 1, Len(stk) - k),
        waste |-> wst \o [i \in 1..k |->
                     [stk[Len(stk) - k + i] EXCEPT !.face_up = TRUE]]]

RECURSIVE deal_cards(_, _, _)
deal_cards(stk, wst, n) ==
    IF n = 0 \/ stk = <<>> THEN [stock |-> stk, waste |-> wst]
    ELSE deal_cards(Front(stk),
                    Append(wst, [Last(stk) EXCEPT !.face_up = TRUE]),
                    n - 1)

\* mutant of deal_from_stock: no check that the waste is empty too
deal_from_stock_no_empty_check(gs) ==
    IF gs.stock = <<>>
    THEN LET r == recycle_waste(gs.stock, gs.waste)
         IN [gs |-> [gs EXCEPT !.stock = r.stock, !.waste = r.waste,
                               !.move_count = gs.move_count + 1],
             result |-> Ok]
    ELSE LET r == deal_cards(gs.stock, gs.waste,
                             cards_to_deal(gs.draw_count, Len(gs.stock)))
         IN [gs |-> [gs EXCEPT !.stock = r.stock, !.waste = r.waste,
                               !.move_count = gs.move_count + 1],
             result |-> Ok]

\* mutant of deal_from_stock: a recycle is not counted as a move
deal_from_stock_recycle_uncounted(gs) ==
    IF gs.stock = <<>>
    THEN IF gs.waste = <<>>
         THEN [gs |-> gs, result |-> EmptyPiles]
         ELSE LET r == recycle_waste(gs.stock, gs.waste)
              IN [gs |-> [gs EXCEPT !.stock = r.stock, !.waste = r.waste],
                  result |-> Ok]
    ELSE LET r == deal_cards(gs.stock, gs.waste,
                             cards_to_deal(gs.draw_count, Len(gs.stock)))
         IN [gs |-> [gs EXCEPT !.stock = r.stock, !.waste = r.waste,
                               !.move_count = gs.move_count + 1],
             result |-> Ok]

\* Each operation returns the GameState after the call and its Result.
\* mutant of deal_from_stock: move_count grows by the number of cards moved
deal_from_stock_counts_cards(gs) ==
    IF gs.stock = <<>>
    THEN IF gs.waste = <<>>
         THEN [gs |-> gs, result |-> EmptyPiles]
         ELSE LET r == recycle_waste(gs.stock, gs.waste)
              IN [gs |-> [gs EXCEPT !.stock = r.stock, !.waste = r.waste,
                                    !.move_count =
                                        gs.move_count + Len(gs.waste)],
                  result |-> Ok]
    ELSE LET n == cards_to_deal(gs.draw_count, Len(gs.stock))
             r == deal_cards(gs.stock, gs.waste, n)
         IN [gs |-> [gs EXCEPT !.stock = r.stock, !.waste = r.waste,
                               !.move_count = gs.move_count + n],
             result |-> Ok]

\* mutant of deal_from_stock: an empty stock is an error, waste or no waste
deal_from_stock_no_recycle(gs) ==
    IF gs.stock = <<>>
    THEN [gs |-> gs, result |-> EmptyPiles]
    ELSE LET r == deal_cards(gs.stock, gs.waste,
                             cards_to_deal(gs.draw_count, Len(gs.stock)))
         IN [gs |-> [gs EXCEPT !.stock = r.stock, !.waste = r.waste,
                               !.move_count = gs.move_count + 1],
             result |-> Ok]

deal_from_stock(gs) ==
    IF gs.stock = <<>>
    THEN IF gs.waste = <<>>
         THEN [gs |-> gs, result |-> EmptyPiles]
         ELSE LET r == recycle_waste(gs.stock, gs.waste)
              IN [gs |-> [gs EXCEPT !.stock = r.stock, !.waste = r.waste,
                                    !.move_count = gs.move_count + 1],
                  result |-> Ok]
    ELSE LET r == deal_cards(gs.stock, gs.waste,
                             cards_to_deal(gs.draw_count, Len(gs.stock)))
         IN [gs |-> [gs EXCEPT !.stock = r.stock, !.waste = r.waste,
                               !.move_count = gs.move_count + 1],
             result |-> Ok]

\* mutant of flip_card: move_count is bumped before the face-up check
flip_card_counts_first(gs, position) ==
    IF position.kind = "Tableau"
    THEN IF position.col >= NumColumns
         THEN [gs |-> gs, result |-> InvalidColumn]
         ELSE LET pile == gs.tableau[position.col]
                  idx == position.idx
                  counted == [gs EXCEPT !.move_count = gs.move_count + 1]
              IN IF idx >= Len(pile)
                 THEN [gs |-> gs, result |-> InvalidIndex]
                 ELSE IF idx # Len(pile) - 1
                 THEN [gs |-> gs, result |-> NotTopCard]
                 ELSE IF pile[idx + 1].face_up
                 THEN [gs |-> counted, result |-> AlreadyFaceUp]
                 ELSE [gs |-> [counted EXCEPT
                                 !.tableau[position.col][idx + 1].face_up = TRUE],
                       result |-> Ok]
    ELSE [gs |-> gs, result |-> WrongPileKind]

\* mutant of flip_card: any face-down card may be flipped, not only the top
flip_card_any_card(gs, position) ==
    IF position.kind = "Tableau"
    THEN IF position.col >= NumColumns
         THEN [gs |-> gs, result |-> InvalidColumn]
         ELSE LET pile == gs.tableau[position.col]
                  idx == position.idx
              IN IF idx >= Len(pile)
                 THEN [gs |-> gs, result |-> InvalidIndex]
                 ELSE IF pile[idx + 1].face_up
                 THEN [gs |-> gs, result |-> AlreadyFaceUp]
                 ELSE [gs |-> [gs EXCEPT
                                 !.tableau[position.col][idx + 1].face_up = TRUE,
                                 !.move_count = gs.move_count + 1],
                       result |-> Ok]
    ELSE [gs |-> gs, result |-> WrongPileKind]

\* mutant of flip_card: the top-card check comes before the index check
flip_card_top_check_first(gs, position) ==
    IF position.kind = "Tableau"
    THEN IF position.col >= NumColumns
         THEN [gs |-> gs, result |-> InvalidColumn]
         ELSE LET pile == gs.tableau[position.col]
                  idx == position.idx
              IN IF idx # Len(pile) - 1
                 THEN [gs |-> gs, result |-> NotTopCard]
                 ELSE IF idx >= Len(pile)
                 THEN [gs |-> gs, result |-> InvalidIndex]
                 ELSE IF pile[idx + 1].face_up
                 THEN [gs |-> gs, result |-> AlreadyFaceUp]
                 ELSE [gs |-> [gs EXCEPT
                                 !.tableau[position.col][idx + 1].face_up = TRUE,
                                 !.move_count = gs.move_count + 1],
                       result |-> Ok]
    ELSE [gs |-> gs, result |-> WrongPileKind]

\* mutant of flip_card: every card of the column is turned face-up
flip_card_whole_column(gs, position) ==
    IF position.kind = "Tableau"
    THEN IF position.col >= NumColumns
         THEN [gs |-> gs, result |-> InvalidColumn]
         ELSE LET pile == gs.tableau[position.col]
                  idx == position.idx
              IN IF idx >= Len(pile)
                 THEN [gs |-> gs, result |-> InvalidIndex]
                 ELSE IF idx # Len(pile) - 1
                 THEN [gs |-> gs, result |-> NotTopCard]
                 ELSE IF pile[idx + 1].face_up
                 THEN [gs |-> gs, result |-> AlreadyFaceUp]
                 ELSE [gs |-> [gs EXCEPT
                                 !.tableau[position.col] =
                                     [i \in 1..Len(pile) |->
                                         [pile[i] EXCEPT !.face_up = TRUE]],
                                 !.move_count = gs.move_count + 1],
                       result |-> Ok]
    ELSE [gs |-> gs, result |-> WrongPileKind]

\* mutant of flip_card: no idx >= pile.len() check before pile.len() - 1
flip_card_no_index_check(gs, position) ==
    IF position.kind = "Tableau"
    THEN IF position.col >= NumColumns
         THEN [gs |-> gs, result |-> InvalidColumn]
         ELSE LET pile == gs.tableau[position.col]
                  idx == position.idx
              IN IF Len(pile) = 0
                 THEN [gs |-> gs, result |-> Panic]
                 ELSE IF idx # Len(pile) - 1
                 THEN [gs |-> gs, result |-> NotTopCard]
                 ELSE IF idx >= Len(pile)
                 THEN [gs |-> gs, result |-> Panic]
                 ELSE IF pile[idx + 1].face_up
                 THEN [gs |-> gs, result |-> AlreadyFaceUp]
                 ELSE [gs |-> [gs EXCEPT
                                 !.tableau[position.col][idx + 1].face_up = TRUE,
                                 !.move_count = gs.move_count + 1],
                       result |-> Ok]
    ELSE [gs |-> gs, result |-> WrongPileKind]

\* The call aborts (Panic) where pile.len() - 1 would underflow and where
\* pile[idx] would be out of bounds.
flip_card(gs, position) ==
    IF position.kind = "Tableau"
    THEN IF position.col >= NumColumns
         THEN [gs |-> gs, result |-> InvalidColumn]
         ELSE LET pile == gs.tableau[position.col]
                  idx == position.idx
              IN IF idx >= Len(pile)
                 THEN [gs |-> gs, result |-> InvalidIndex]
                 ELSE IF Len(pile) = 0
                 THEN [gs |-> gs, result |-> Panic]
                 ELSE IF idx # Len(pile) - 1
                 THEN [gs |-> gs, result |-> NotTopCard]
                 ELSE IF idx >= Len(pile)
                 THEN [gs |-> gs, result |-> Panic]
                 ELSE IF pile[idx + 1].face_up
                 THEN [gs |-> gs, result |-> AlreadyFaceUp]
                 ELSE [gs |-> [gs EXCEPT
                                 !.tableau[position.col][idx + 1].face_up = TRUE,
                                 !.move_count = gs.move_count + 1],
                       result |-> Ok]
    ELSE [gs |-> gs, result |-> WrongPileKind]

\* mutant of can_click_position: any card of the column may be clicked
can_click_position_any_index(gs, position) ==
    CASE position.kind = "Stock" -> TRUE
      [] position.kind = "Tableau" ->
           IF position.col >= NumColumns THEN FALSE
           ELSE position.idx < Len(gs.tableau[position.col])
      [] position.kind = "Waste" -> FALSE
      [] position.kind = "Foundation" -> FALSE

can_click_position(gs, position) ==
    CASE position.kind = "Stock" -> TRUE
      [] position.kind = "Tableau" ->
           IF position.col >= NumColumns THEN FALSE
           ELSE LET pile == gs.tableau[position.col]
                    idx == position.idx
                IN IF idx >= Len(pile) THEN FALSE
                   ELSE idx = Len(pile) - 1
      [] position.kind = "Waste" -> FALSE
      [] position.kind = "Foundation" -> FALSE

\* mutant of get_cards_at_position: face-down cards are lifted with the rest
get_cards_at_position_any_face(gs, position) ==
    CASE position.kind = "Stock" -> <<>>
      [] position.kind = "Waste" ->
           IF gs.waste # <<>> /\ position.idx = Len(gs.waste) - 1
           THEN <<Last(gs.waste)>> ELSE <<>>
      [] position.kind = "Foundation" ->
           IF position.pile < NumFoundations
              /\ gs.foundations[position.pile] # <<>>
           THEN <<Last(gs.foundations[position.pile])>> ELSE <<>>
      [] position.kind = "Tableau" ->
           IF position.col >= NumColumns THEN <<>>
           ELSE LET pile == gs.tableau[position.col]
                    idx == position.idx
                IN IF /\ idx < Len(pile)
                      /\ \A i \in (idx + 2)..Len(pile) :
                            /\ pile[i].rank = pile[i - 1].rank - 1
                            /\ is_red(pile[i]) # is_red(pile[i - 1])
                   THEN SubSeq(pile, idx + 1, Len(pile)) ELSE <<>>

\* get_cards_at_position, which main.rs calls and src/ does not hold, after
\* section 4.5 of the specification: the liftable run at a position, empty
\* when nothing can be lifted there.
get_cards_at_position(gs, position) ==
    CASE position.kind = "Stock" -> <<>>
      [] position.kind = "Waste" ->
           IF gs.waste # <<>> /\ position.idx = Len(gs.waste) - 1
           THEN <<Last(gs.waste)>> ELSE <<>>
      [] position.kind = "Foundation" ->
           IF position.pile < NumFoundations
              /\ gs.foundations[position.pile] # <<>>
           THEN <<Last(gs.foundations[position.pile])>> ELSE <<>>
      [] position.kind = "Tableau" ->
           IF position.col >= NumColumns THEN <<>>
           ELSE LET pile == gs.tableau[position.col]
                    idx == position.idx
                IN IF /\ idx < Len(pile)
                      /\ \A i \in (idx + 1)..Len(pile) : pile[i].face_up
                      /\ \A i \in (idx + 2)..Len(pile) :
                            /\ pile[i].rank = pile[i - 1].rank - 1
                            /\ is_red(pile[i]) # is_red(pile[i - 1])
                   THEN SubSeq(pile, idx + 1, Len(pile)) ELSE <<>>

\* mutant of move_card: the top waste card goes to a foundation unvalidated
move_card_unchecked(gs, from, to) ==
    IF /\ from.kind = "Waste" /\ gs.waste # <<>>
       /\ to.kind = "Foundation" /\ to.pile < NumFoundations
    THEN [gs |-> [gs EXCEPT !.waste = Front(gs.waste),
                            !.foundations[to.pile] = Append(@, Last(gs.waste)),
                            !.move_count = gs.move_count + 1],
          result |-> Ok]
    ELSE [gs |-> gs, result |-> MoveNotImplemented]

move_card(gs, from, to) == [gs |-> gs, result |-> MoveNotImplemented]

\* mutant of handle_action: NewGame re-deals the piles and keeps move_count
handle_action_keeps_count(gs, act, deck) ==
    CASE act.kind = "DealFromStock" -> deal_from_stock(gs)
      [] act.kind = "FlipCard" -> flip_card(gs, act.position)
      [] act.kind = "MoveCard" -> move_card(gs, act.from, act.to)
      [] act.kind = "NewGame" ->
           [gs |-> [new_with_draw_count(gs.draw_count, deck)
                       EXCEPT !.move_count = gs.move_count],
            result |-> Ok]
      [] act.kind = "Undo" -> [gs |-> gs, result |-> UndoNotImplemented]

\* mutant of handle_action: NewGame is *self = Self::new()
handle_action_default_draw(gs, act, deck) ==
    CASE act.kind = "DealFromStock" -> deal_from_stock(gs)
      [] act.kind = "FlipCard" -> flip_card(gs, act.position)
      [] act.kind = "MoveCard" -> move_card(gs, act.from, act.to)
      [] act.kind = "NewGame" -> [gs |-> new(deck), result |-> Ok]
      [] act.kind = "Undo" -> [gs |-> gs, result |-> UndoNotImplemented]

\* handle_action; deck is the shuffled deck GameState::new would draw
handle_action(gs, act, deck) ==
    CASE act.kind = "DealFromStock" -> deal_from_stock(gs)
      [] act.kind = "FlipCard" -> flip_card(gs, act.position)
      [] act.kind = "MoveCard" -> move_card(gs, act.from, act.to)
      [] act.kind = "NewGame" ->
           [gs |-> new_with_draw_count(gs.draw_count, deck), result |-> Ok]
      [] act.kind = "Undo" -> [gs |-> gs, result |-> UndoNotImplemented]

----------------------------------------------------------------------------
(* The state machine *)

Self ==
    [tableau |-> tableau, foundations |-> foundations, stock |-> stock,
     waste |-> waste, move_count |-> move_count, game_won |-> game_won,
     draw_count |-> draw_count]

\* handle_action(act) is called and returns: *self and the Result are as
\* the operation left them.
Dispatch(act, deck) ==
    LET r == handle_action(Self, act, deck)
    IN /\ tableau' = r.gs.tableau
       /\ foundations' = r.gs.foundations
       /\ stock' = r.gs.stock
       /\ waste' = r.gs.waste
       /\ move_count' = r.gs.move_count
       /\ game_won' = r.gs.game_won
       /\ draw_count' = r.gs.draw_count
       /\ result' = r.result

\* the state is the GameState value gs and no action has been dispatched
Created(gs) ==
    /\ tableau = gs.tableau
    /\ foundations = gs.foundations
    /\ stock = gs.stock
    /\ waste = gs.waste
    /\ move_count = gs.move_count
    /\ game_won = gs.game_won
    /\ draw_count = gs.draw_count
    /\ action = "None"
    /\ result = "None"
    /\ drag_state = <<>>

Decks == {shuffle(create_deck, k) : k \in 0..(NumShuffles - 1)}

Init ==
    \E deck \in Decks, d \in DrawCount : Created(new_with_draw_count(d, deck))

\* One action per GameAction variant; `action` keeps the variant's name.
DealFromStock ==
    /\ move_count < MaxMoves
    /\ Dispatch(DealFromStockAction, create_deck)
    /\ action' = "DealFromStock"
    /\ drag_state' = drag_state

FlipCard(position) ==
    /\ move_count < MaxMoves
    /\ Dispatch(FlipCardAction(position), create_deck)
    /\ action' = "FlipCard"
    /\ drag_state' = drag_state

MoveCard(from, to) ==
    /\ Dispatch(MoveCardAction(from, to), create_deck)
    /\ action' = "MoveCard"
    /\ drag_state' = drag_state

NewGame ==
    /\ \E deck \in Decks : Dispatch(NewGameAction, deck)
    /\ action' = "NewGame"
    /\ drag_state' = drag_state

Undo ==
    /\ Dispatch(UndoAction, create_deck)
    /\ action' = "Undo"
    /\ drag_state' = drag_state

Next ==
    \/ DealFromStock
    \/ \E position \in Position : FlipCard(position)
    \/ \E from \in MovePosition, to \in MovePosition : MoveCard(from, to)
    \/ NewGame
    \/ Undo

Spec == Init /\ [][Next]_vars

----------------------------------------------------------------------------
(* The GameState API on states built through the struct's public fields, *)
(* the way the unit tests of state.rs build theirs.                        *)

Min(a, b) == IF a < b THEN a ELSE b

\* game_state.tableau[col].pop(), p times
pop_tableau(gs, col, p) ==
    [gs EXCEPT !.tableau[col] = SubSeq(@, 1, Len(@) - Min(p, Len(@)))]

\* game_state.stock.truncate(n): a caller cutting the public stock field
truncate_stock(gs, n) == [gs EXCEPT !.stock = SubSeq(@, 1, Min(n, Len(@)))]

TestInit ==
    \E deck \in Decks, d \in DrawCount, col \in 0..(NumColumns - 1),
       p \in 0..MaxPops, n \in 0..MaxCut :
        Created(truncate_stock(
                    pop_tableau(new_with_draw_count(d, deck), col, p), n))

\* test_flip_card_in_tableau: the top of column col is popped, the card it
\* exposes is flipped with flip_card, and the top is pushed back
flip_under_top(gs, col) ==
    LET top_card == Last(gs.tableau[col])
        popped == pop_tableau(gs, col, 1)
        top_idx == Len(popped.tableau[col]) - 1
        game_state == flip_card(popped, Tableau(col, top_idx)).gs
    IN [game_state EXCEPT !.tableau[col] = Append(@, top_card)]

RunInit ==
    \E deck \in Decks, d \in DrawCount, col \in 1..(NumColumns - 1) :
        Created(flip_under_top(new_with_draw_count(d, deck), col))

TestDealFromStock == move_count < MaxTestMoves /\ DealFromStock

TestFlipCard ==
    /\ move_count < MaxTestMoves
    /\ \E position \in Position : FlipCard(position)

TestMoveCard ==
    /\ move_count < MaxTestMoves
    /\ \E from \in MovePosition, to \in MovePosition : MoveCard(from, to)

TestNewGame == move_count < MaxTestMoves /\ NewGame

TestUndo == move_count < MaxTestMoves /\ Undo

TestNext ==
    \/ TestDealFromStock
    \/ TestFlipCard
    \/ TestMoveCard
    \/ TestNewGame
    \/ TestUndo

SpecTest == TestInit /\ [][TestNext]_vars

SpecRun == RunInit /\ [][TestNext]_vars

\* DealFromStock dispatched again and again.  The piles do not depend on
\* move_count, which is kept at MaxMoves once it has got there.
DealLoop ==
    LET r == handle_action(Self, DealFromStockAction, create_deck)
    IN /\ tableau' = r.gs.tableau
       /\ foundations' = r.gs.foundations
       /\ stock' = r.gs.stock
       /\ waste' = r.gs.waste
       /\ move_count' = Min(r.gs.move_count, MaxMoves)
       /\ game_won' = r.gs.game_won
       /\ draw_count' = r.gs.draw_count
       /\ result' = r.result
       /\ action' = "DealFromStock"
       /\ drag_state' = drag_state

\* games whose stock a caller has cut to 1..MaxCut cards
DealInit ==
    \E deck \in Decks, d \in DrawCount, n \in 1..MaxCut :
        Created(truncate_stock(new_with_draw_count(d, deck), n))

SpecDeal == DealInit /\ [][DealLoop]_vars /\ WF_vars(DealLoop)

----------------------------------------------------------------------------
(* Drag and drop: SolitaireApp in src/main.rs.  The mouse coordinates of a *)
(* DragState (current_mouse_position, drag_offset) are only drawn and are  *)
(* not modelled.                                                           *)

App == [game_state |-> Self, drag_state |-> drag_state]

\* Vec::contains
Contains(seq, x) == \E i \in 1..Len(seq) : seq[i] = x

is_same_position(pos1, pos2) ==
    /\ pos1.kind = "Tableau"
    /\ pos2.kind = "Tableau"
    /\ pos1.col = pos2.col

can_drop_on_tableau(app, card, col) ==
    IF col >= NumColumns THEN FALSE
    ELSE LET pile == app.game_state.tableau[col]
         IN IF pile = <<>> THEN card.rank = 13
            ELSE can_place_on_tableau(card, Last(pile))

can_drop_on_foundation(app, card, foundation) ==
    IF foundation >= NumFoundations THEN FALSE
    ELSE LET pile == app.game_state.foundations[foundation]
             top_card == Vec_last(pile)
         IN can_place_on_foundation(card, top_card)

\* Err(_) => Vec::new(): an empty run either way
get_draggable_cards(app, position) ==
    get_cards_at_position(app.game_state, position)

\* mutant of get_valid_drop_targets: a tableau target is Tableau(col, 0)
get_valid_drop_targets_index_zero(app, cards, source) ==
    IF cards = <<>> THEN <<>>
    ELSE LET first_card == cards[1]
             TableauOk(pos) ==
                 /\ can_drop_on_tableau(app, first_card, pos.col)
                 /\ ~is_same_position(source, Tableau(pos.col, 0))
             FoundationOk(pos) ==
                 can_drop_on_foundation(app, first_card, pos.pile)
         IN SelectSeq([c \in 1..NumColumns |-> Tableau(c - 1, 0)], TableauOk)
              \o (IF Len(cards) = 1
                  THEN SelectSeq([f \in 1..NumFoundations |->
                                     Foundation(f - 1)], FoundationOk)
                  ELSE <<>>)

get_valid_drop_targets(app, cards, source) ==
    IF cards = <<>> THEN <<>>
    ELSE LET first_card == cards[1]
             TableauOk(pos) ==
                 /\ can_drop_on_tableau(app, first_card, pos.col)
                 /\ ~is_same_position(source, Tableau(pos.col, 0))
             FoundationOk(pos) ==
                 can_drop_on_foundation(app, first_card, pos.pile)
         IN SelectSeq([c \in 1..NumColumns |->
                          Tableau(c - 1, Len(app.game_state.tableau[c - 1]))],
                      TableauOk)
              \o (IF Len(cards) = 1
                  THEN SelectSeq([f \in 1..NumFoundations |->
                                     Foundation(f - 1)], FoundationOk)
                  ELSE <<>>)

DragState(dragged_cards, source_position, valid_drop_targets) ==
    [dragged_cards |-> dragged_cards,
     source_position |-> source_position,
     valid_drop_targets |-> valid_drop_targets]

\* mutant of start_drag: the drag starts whatever the run
start_drag_any_run(app, position) ==
    LET dragged_cards == get_draggable_cards(app, position)
    IN [app EXCEPT !.drag_state =
           <<DragState(dragged_cards, position,
                       get_valid_drop_targets(app, dragged_cards, position))>>]

\* drag_state is an Option<DragState>: <<>> for None, <<d>> for Some(d)
start_drag(app, position) ==
    LET dragged_cards == get_draggable_cards(app, position)
    IN IF dragged_cards # <<>>
       THEN [app EXCEPT !.drag_state =
                <<DragState(dragged_cards, position,
                            get_valid_drop_targets(app, dragged_cards,
                                                   position))>>]
       ELSE app

\* mutant of end_drag: any drop position is taken for a valid target
end_drag_any_target(app, drop_position) ==
    IF app.drag_state # <<>>
    THEN LET taken == [app EXCEPT !.drag_state = <<>>]
         IN IF drop_position # <<>>
            THEN LET move_action ==
                         MoveCardAction(app.drag_state[1].source_position,
                                        drop_position[1])
                     r == handle_action(app.game_state, move_action,
                                        create_deck)
                 IN [app |-> [taken EXCEPT !.game_state = r.gs],
                     dispatched |-> <<move_action>>, result |-> r.result]
            ELSE [app |-> taken, dispatched |-> <<>>, result |-> "None"]
    ELSE [app |-> app, dispatched |-> <<>>, result |-> "None"]

\* end_drag(drop_position): the app as the call leaves it, the action it
\* handed to handle_action (none: <<>>) and that call's Result
end_drag(app, drop_position) ==
    IF app.drag_state # <<>>
    THEN LET taken == [app EXCEPT !.drag_state = <<>>]
         IN IF drop_position # <<>>
            THEN IF Contains(app.drag_state[1].valid_drop_targets,
                             drop_position[1])
                 THEN LET move_action ==
                              MoveCardAction(
                                  app.drag_state[1].source_position,
                                  drop_position[1])
                          r == handle_action(app.game_state, move_action,
                                             create_deck)
                      IN [app |-> [taken EXCEPT !.game_state = r.gs],
                          dispatched |-> <<move_action>>,
                          result |-> r.result]
                 ELSE [app |-> taken, dispatched |-> <<>>,
                       result |-> "None"]
            ELSE [app |-> taken, dispatched |-> <<>>, result |-> "None"]
    ELSE [app |-> app, dispatched |-> <<>>, result |-> "None"]

\* *self is the SolitaireApp value app
Becomes(app) ==
    /\ tableau' = app.game_state.tableau
    /\ foundations' = app.game_state.foundations
    /\ stock' = app.game_state.stock
    /\ waste' = app.game_state.waste
    /\ move_count' = app.game_state.move_count
    /\ game_won' = app.game_state.game_won
    /\ draw_count' = app.game_state.draw_count
    /\ drag_state' = app.drag_state

\* mouse down on a card
StartDrag(position) ==
    /\ Becomes(start_drag(App, position))
    /\ action' = "StartDrag"
    /\ result' = "None"

\* mouse up, on a drop zone (Some(position)) or on the board (None)
EndDrag(drop_position) ==
    LET e == end_drag(App, drop_position)
    IN /\ Becomes(e.app)
       /\ action' = "EndDrag"
       /\ result' = e.result

\* Option<Position> values a mouse-up handler may pass
DropPosition == {<<>>} \cup {<<position>> : position \in Position}

\* a game with a two-card run on one column and, for p = 1, column 0 empty
DragInit ==
    \E deck \in Decks, d \in DrawCount, col \in 1..(NumColumns - 1),
       p \in 0..MaxPops :
        Created(pop_tableau(
                    flip_under_top(new_with_draw_count(d, deck), col), 0, p))

DragDealFromStock == move_count < MaxDragMoves /\ DealFromStock

DragNext ==
    \/ \E position \in Position : StartDrag(position)
    \/ \E drop_position \in DropPosition : EndDrag(drop_position)
    \/ DragDealFromStock

SpecDrag == DragInit /\ [][DragNext]_vars

----------------------------------------------------------------------------
(* Properties *)

Identity(card) == <<card.suit, card.rank>>

RECURSIVE Flatten(_, _, _)
Flatten(piles, lo, hi) ==
    IF lo > hi THEN <<>> ELSE piles[lo] \o Flatten(piles, lo + 1, hi)

AllCards ==
    Flatten(tableau, 0, NumColumns - 1)
        \o Flatten(foundations, 0, NumFoundations - 1) \o stock \o waste

Occurrences(cards, id) ==
    Cardinality({i \in 1..Len(cards) : Identity(cards[i]) = id})

\* the two sequences hold the same cards, whatever their order and faces
SameCards(a, b) ==
    /\ Len(a) = Len(b)
    /\ \A i \in 1..Len(a) :
          Occurrences(a, Identity(a[i])) = Occurrences(b, Identity(a[i]))

GameFields == <<tableau, foundations, stock, waste, move_count, game_won,
                draw_count>>

DealStep == action' = "DealFromStock" /\ stock # <<>>
RecycleStep == action' = "DealFromStock" /\ stock = <<>> /\ waste # <<>>

\* C1: in every state reachable from a fresh game the piles together hold
\* each of the 52 (suit, rank) cards exactly once.
Conservation ==
    /\ Len(AllCards) = 52
    /\ \A i \in 1..Len(Suit_all), r \in 1..13 :
          Occurrences(AllCards, <<Suit_all[i], r>>) = 1

ConservationWitness ==
    /\ action = "DealFromStock" /\ result = Ok
    /\ waste # <<>> /\ stock # <<>> /\ move_count > 1

\* C2: a handle_action call that returns an error leaves tableau,
\* foundations, stock, waste, move_count, game_won and draw_count as
\* they were.
RejectionIdempotent == [][result' # Ok => UNCHANGED GameFields]_vars

RejectionWitness ==
    /\ result \in {EmptyPiles, AlreadyFaceUp, NotTopCard, MoveNotImplemented}
    /\ move_count > 0

\* C3: a freshly created game (construction or NewGame) has i+1 cards in
\* column i with only the last face-up, 24 face-down stock cards, empty
\* foundations and waste.
DealShape ==
    action \in {"None", "NewGame"} =>
        /\ \A col \in 0..6 :
              /\ Len(tableau[col]) = col + 1
              /\ \A i \in 1..(col + 1) : tableau[col][i].face_up <=> (i = col + 1)
        /\ Len(stock) = 24
        /\ \A i \in 1..Len(stock) : ~stock[i].face_up
        /\ \A f \in 0..3 : foundations[f] = <<>>
        /\ waste = <<>>

DealShapeWitness == action = "NewGame" /\ result = Ok /\ draw_count = "One"

\* C4: with a non-empty stock DealFromStock succeeds and moves exactly 1
\* card (mode One) or min(3, stock.len()) cards (mode Three) from stock to
\* waste, each ending face-up in waste.
DrawCountBehaviour ==
    [][DealStep =>
        LET k == IF draw_count = "One" THEN 1 ELSE Min(3, Len(stock))
            n == Len(stock)
            w == Len(waste)
        IN /\ result' = Ok
           /\ Len(stock') = n - k
           /\ Len(waste') = w + k
           /\ stock' = SubSeq(stock, 1, n - k)
           /\ SubSeq(waste', 1, w) = waste
           /\ SameCards(SubSeq(waste', w + 1, w + k), SubSeq(stock, n - k + 1, n))
           /\ \A i \in (w + 1)..(w + k) : waste'[i].face_up]_vars

DrawCountWitness ==
    /\ action = "DealFromStock" /\ result = Ok /\ draw_count = "Three"
    /\ stock = <<>> /\ Len(waste) \in {1, 2}

\* C5: DealFromStock with an empty stock and a non-empty waste succeeds,
\* empties the waste and leaves in stock exactly the former waste cards,
\* all face-down.
Recycling ==
    [][RecycleStep =>
        /\ result' = Ok
        /\ waste' = <<>>
        /\ SameCards(stock', waste)
        /\ \A i \in 1..Len(stock') : ~stock'[i].face_up]_vars

RecyclingWitness ==
    /\ action = "DealFromStock" /\ result = Ok
    /\ waste = <<>> /\ Len(stock) = 24 /\ move_count > 1

\* C6 as stated: after a recycle the card that was at waste index 0 is the
\* last card of the rebuilt stock to be dealt (it lies at stock index 0).
RecycleOrderOldestDealtLast ==
    [][RecycleStep => Identity(stock'[1]) = Identity(waste[1])]_vars

\* C6 amended: after a recycle the card that was at waste index 0 is on
\* top of the rebuilt stock, the first to be dealt, and the card that was
\* on top of the waste lies at stock index 0, the last to be dealt: the
\* stock is the waste reversed.
RecycleOrderOldestDealtFirst ==
    [][RecycleStep =>
        /\ Len(stock') = Len(waste)
        /\ \A i \in 1..Len(waste) :
              Identity(stock'[i]) = Identity(waste[Len(waste) + 1 - i])]_vars

RecycleOrderWitness ==
    /\ action = "DealFromStock" /\ result = Ok
    /\ waste = <<>> /\ Len(stock) > 1 /\ move_count > 1

\* C7: DealFromStock with both stock and waste empty returns EmptyPiles and
\* changes no pile and no counter.
EmptyPilesNoOp ==
    [][action' = "DealFromStock" /\ stock = <<>> /\ waste = <<>> =>
        result' = EmptyPiles /\ UNCHANGED GameFields]_vars

EmptyPilesWitness ==
    /\ action = "DealFromStock" /\ result = EmptyPiles
    /\ stock = <<>> /\ waste = <<>>

\* what handle_action(FlipCard(position)) does from the current state
Flipped(position) == handle_action(Self, FlipCardAction(position), create_deck)

IsFaceDownTop(position) ==
    /\ position.kind = "Tableau"
    /\ position.col < 7
    /\ tableau[position.col] # <<>>
    /\ position.idx = Len(tableau[position.col]) - 1
    /\ ~tableau[position.col][position.idx + 1].face_up

\* C8: FlipCard(Tableau(col, idx)) succeeds iff col < 7, idx is the last
\* index of a non-empty column and the card there is face-down; on success
\* exactly that card turns face-up and move_count grows by 1.
FlipCardContract ==
    \A position \in Position :
        position.kind = "Tableau" =>
            LET r == Flipped(position)
            IN /\ (r.result = Ok) <=> IsFaceDownTop(position)
               /\ r.result = Ok =>
                    /\ r.gs.move_count = move_count + 1
                    /\ r.gs.tableau[position.col][position.idx + 1] =
                         [tableau[position.col][position.idx + 1]
                             EXCEPT !.face_up = TRUE]
                    /\ \A col \in 0..6 :
                         /\ Len(r.gs.tableau[col]) = Len(tableau[col])
                         /\ \A i \in 1..Len(tableau[col]) :
                               (col # position.col \/ i # position.idx + 1) =>
                                   r.gs.tableau[col][i] = tableau[col][i]

FlipCardWitness ==
    /\ action = "FlipCard" /\ result = Ok /\ move_count > 0
    /\ \E col \in 0..6, i \in 1..7 :
          /\ i < col + 1
          /\ Len(tableau[col]) = i
          /\ tableau[col][i].face_up

\* C9: FlipCard rejections in order of precedence: a non-tableau position
\* gives WrongPileKind, then column >= 7 InvalidColumn, then index >= column
\* length InvalidIndex, then index not the last NotTopCard, then a face-up
\* card AlreadyFaceUp; the five outcomes are distinct.
FlipCardOutcome(position) ==
    CASE position.kind # "Tableau" -> WrongPileKind
      [] position.kind = "Tableau" /\ position.col >= 7 -> InvalidColumn
      [] OTHER ->
           LET len == Len(tableau[position.col])
           IN CASE position.idx >= len -> InvalidIndex
                [] position.idx < len - 1 -> NotTopCard
                [] OTHER ->
                     IF tableau[position.col][len].face_up
                     THEN AlreadyFaceUp ELSE Ok

FreshPiles(tab, fnd, stk, wst) ==
    /\ \A col \in 0..6 :
          /\ Len(tab[col]) = col + 1
          /\ \A i \in 1..(col + 1) : tab[col][i].face_up <=> (i = col + 1)
    /\ Len(stk) = 24
    /\ \A i \in 1..Len(stk) : ~stk[i].face_up
    /\ \A f \in 0..3 : fnd[f] = <<>>
    /\ wst = <<>>

\* C11: NewGame succeeds from every state and leaves a freshly dealt game:
\* deal-shape piles, move_count 0, game_won false and the draw_count held
\* before the action.
NewGameReplacesState ==
    [][action' = "NewGame" =>
        /\ result' = Ok
        /\ FreshPiles(tableau', foundations', stock', waste')
        /\ move_count' = 0
        /\ ~game_won'
        /\ draw_count' = draw_count]_vars

NewGameWitness ==
    /\ action = "NewGame" /\ result = Ok /\ move_count = 0
    /\ draw_count = "Three" /\ Len(stock) = 24

\* C12: draw_count never changes: after any sequence of actions it is the
\* draw_count the game was created with.
DrawCountFixed == [][draw_count' = draw_count]_vars

DrawCountFixedWitness ==
    /\ draw_count = "One" /\ action = "NewGame" /\ waste = <<>>

\* C13: in every reachable state every stock card is face-down and every
\* waste card is face-up.
StockWasteOrientation ==
    /\ \A i \in 1..Len(stock) : ~stock[i].face_up
    /\ \A i \in 1..Len(waste) : waste[i].face_up

StockWasteOrientationWitness ==
    /\ action = "DealFromStock" /\ result = Ok /\ draw_count = "Three"
    /\ Len(stock) = 21 /\ Len(waste) = 3 /\ move_count > 9

\* C14: in every reachable state every card of a tableau pile below its
\* last card is face-down.
TableauFaceRule ==
    \A col \in 0..6 :
        \A i \in 1..(Len(tableau[col]) - 1) : ~tableau[col][i].face_up

TableauFaceRuleWitness ==
    /\ action = "FlipCard" /\ result = Ok
    /\ \E col \in 2..6 :
          /\ Len(tableau[col]) = col
          /\ tableau[col][col].face_up
          /\ ~tableau[col][col - 1].face_up

NoMovableCards == "NoMovableCards"
InvalidSequenceTarget == "InvalidSequenceTarget"
IllegalTableauPlacement == "IllegalTableauPlacement"
IllegalFoundationPlacement == "IllegalFoundationPlacement"
NoOpMove == "NoOpMove"

\* destinations of a move: the index of a tableau destination is not read
MoveTarget ==
    {Tableau(col, 0) : col \in 0..MaxCol}
      \cup {Foundation(p) : p \in 0..NumFoundations}
      \cup {StockPos, Waste(0)}

PileOf(gs, position) ==
    CASE position.kind = "Tableau" -> gs.tableau[position.col]
      [] position.kind = "Foundation" -> gs.foundations[position.pile]
      [] position.kind = "Stock" -> gs.stock
      [] position.kind = "Waste" -> gs.waste

SamePile(from, to) ==
    /\ from.kind = to.kind
    /\ from.kind = "Tableau" => from.col = to.col
    /\ from.kind = "Foundation" => from.pile = to.pile

Run(from) == get_cards_at_position(Self, from)

Moved(from, to) == handle_action(Self, MoveCardAction(from, to), create_deck)

TableauPlacementLegal(lead, col) ==
    \/ tableau[col] = <<>> /\ lead.rank = 13
    \/ tableau[col] # <<>> /\ can_place_on_tableau(lead, Last(tableau[col]))

\* the move passes every validation step of section 4.5
MoveLegal(from, to) ==
    /\ Run(from) # <<>>
    /\ Len(Run(from)) > 1 => to.kind = "Tableau"
    /\ \/ /\ to.kind = "Tableau" /\ to.col < 7
          /\ TableauPlacementLegal(Run(from)[1], to.col)
       \/ /\ to.kind = "Foundation" /\ to.pile < 4
          /\ can_place_on_foundation(Run(from)[1],
                                     Vec_last(foundations[to.pile]))
    /\ ~SamePile(from, to)

\* C17: a MoveCard whose liftable run and destination are legal succeeds:
\* the run leaves the tail of the source pile and is appended in order to
\* the destination pile, move_count grows by 1 and game_won is recomputed.
LegalMoveSucceeds ==
    \A from \in Position, to \in MoveTarget :
        MoveLegal(from, to) =>
            LET r == Moved(from, to)
                run == Run(from)
                src == PileOf(Self, from)
            IN /\ r.result = Ok
               /\ PileOf(r.gs, from) = SubSeq(src, 1, Len(src) - Len(run))
               /\ PileOf(r.gs, to) = PileOf(Self, to) \o run
               /\ r.gs.move_count = move_count + 1
               /\ r.gs.game_won <=>
                    (\A f \in 0..3 : Len(r.gs.foundations[f]) = 13)

\* C18: a MoveCard of a liftable run onto another tableau column succeeds
\* iff the column is empty and the lead card is a King, or the column's top
\* card satisfies can_place_on_tableau(lead, top); otherwise it fails with
\* IllegalTableauPlacement.
TableauMoveRule ==
    \A from \in Position, to \in MoveTarget :
        (/\ to.kind = "Tableau" /\ to.col < 7
         /\ Run(from) # <<>> /\ ~SamePile(from, to)) =>
            LET r == Moved(from, to)
                legal == TableauPlacementLegal(Run(from)[1], to.col)
            IN /\ (r.result = Ok) <=> legal
               /\ ~legal => r.result = IllegalTableauPlacement

\* C19: a MoveCard of a run of more than one card to a Foundation position
\* fails with InvalidSequenceTarget, an error distinct from the other move
\* errors, and leaves the state unchanged.
SequenceToFoundationRejected ==
    /\ \A from \in Position, f \in 0..3 :
          Len(Run(from)) > 1 =>
              LET r == Moved(from, Foundation(f))
              IN r.result = InvalidSequenceTarget /\ r.gs = Self
    /\ InvalidSequenceTarget \notin
          {NoMovableCards, IllegalTableauPlacement,
           IllegalFoundationPlacement, NoOpMove}

\* C20: an Undo right after a successful DealFromStock, FlipCard or
\* MoveCard succeeds and puts move_count back to its value before that
\* action (which added one); the piles it should restore as well are not
\* kept anywhere in the state.
UndoAfterSuccess ==
    [][(/\ action' = "Undo"
        /\ action \in {"DealFromStock", "FlipCard", "MoveCard"}
        /\ result = Ok) =>
            result' = Ok /\ move_count' = move_count - 1]_vars


\* C21: get_cards_at_position(Tableau(col, idx)) is the cards from idx to the
\* top of the column, bottom to top, when all of them are face-up and each
\* may be placed on its predecessor (one rank below, opposite colour); it is
\* empty when a card of the range is face-down or breaks the sequence.
RunOk(pile, idx) ==
    \A i \in (idx + 1)..Len(pile) :
        /\ pile[i].face_up
        /\ i > idx + 1 => can_place_on_tableau(pile[i], pile[i - 1])

LiftableRun ==
    \A col \in 0..(NumColumns - 1), idx \in 0..MaxIdx :
        idx < Len(tableau[col]) =>
            LET r == get_cards_at_position(Self, Tableau(col, idx))
            IN IF RunOk(tableau[col], idx)
               THEN r = SubSeq(tableau[col], idx + 1, Len(tableau[col]))
               ELSE r = <<>>

LiftableRunWitness ==
    \E col \in 1..(NumColumns - 1) :
        /\ Len(tableau[col]) > 2
        /\ Len(Run(Tableau(col, Len(tableau[col]) - 2))) = 2
        /\ Run(Tableau(col, Len(tableau[col]) - 3)) = <<>>

RedSuits == {"Hearts", "Diamonds"}

\* the cards of the piles, each with either face
CardsInPlay ==
    LET cards == AllCards
    IN {[cards[i] EXCEPT !.face_up = f] : i \in 1..Len(cards), f \in BOOLEAN}

TableauPlacementRule ==
    LET cards == CardsInPlay
    IN \A c \in cards, t \in cards :
        /\ can_place_on_tableau(c, t) <=>
              /\ t.face_up
              /\ (c.suit \in RedSuits) # (t.suit \in RedSuits)
              /\ c.rank + 1 = t.rank
        /\ (~t.face_up \/ t.rank = 1) => ~can_place_on_tableau(c, t)
        /\ can_place_on_tableau(c, t)
              = can_place_on_tableau([c EXCEPT !.face_up = ~c.face_up], t)

TableauPlacementWitness ==
    /\ action = "DealFromStock" /\ waste # <<>>
    /\ \E col \in 0..(NumColumns - 1) :
          can_place_on_tableau(Last(waste), Last(tableau[col]))
    /\ \E col \in 0..(NumColumns - 1) :
          ~can_place_on_tableau(Last(waste), Last(tableau[col]))

\* C24: c.can_place_on_foundation(None) holds exactly when c is an Ace;
\* c.can_place_on_foundation(Some(t)) exactly when c has the suit of t and
\* rank(c) = rank(t) + 1, so that nothing goes on a King.
FoundationPlacementRule ==
    LET cards == CardsInPlay
    IN \A c \in cards :
        /\ can_place_on_foundation(c, <<>>) <=> c.rank = 1
        /\ \A t \in cards :
              /\ can_place_on_foundation(c, <<t>>) <=>
                    (c.suit = t.suit /\ c.rank - 1 = t.rank)
              /\ t.rank = 13 => ~can_place_on_foundation(c, <<t>>)

FoundationPlacementWitness ==
    /\ action = "DealFromStock" /\ waste # <<>>
    /\ can_place_on_foundation(Last(waste), Vec_last(foundations[0]))
    /\ ~can_place_on_foundation(Last(tableau[0]), Vec_last(foundations[0]))

\* C25: create_deck, the deck every game is dealt from, is 52 pairwise
\* distinct cards, all face-down, in the order Hearts, Diamonds, Clubs,
\* Spades with Ace..King inside each suit.
DeckOrder ==
    /\ SameCards(create_deck, AllCards)
    /\ Len(create_deck) = 52
    /\ \A i, j \in 1..Len(create_deck) :
          i # j => create_deck[i] # create_deck[j]
    /\ \A i \in 1..Len(create_deck) : ~create_deck[i].face_up
    /\ \A r \in 1..13 :
          /\ Identity(create_deck[r]) = <<"Hearts", r>>
          /\ Identity(create_deck[13 + r]) = <<"Diamonds", r>>
          /\ Identity(create_deck[26 + r]) = <<"Clubs", r>>
          /\ Identity(create_deck[39 + r]) = <<"Spades", r>>

DeckOrderWitness ==
    /\ action = "None"
    /\ Identity(tableau[0][1]) = Identity(create_deck[1])
    /\ Identity(Last(stock)) = Identity(create_deck[52])

\* C26: flip changes face_up only and twice flip gives the card back;
\* flipped is the card with face_up negated and the same suit and rank.
FlipInvolution ==
    \A c \in CardsInPlay :
        /\ flip(c).suit = c.suit /\ flip(c).rank = c.rank
        /\ flip(c).face_up # c.face_up
        /\ flip(flip(c)) = c
        /\ flipped(c).suit = c.suit /\ flipped(c).rank = c.rank
        /\ flipped(c).face_up # c.face_up

FlipInvolutionWitness ==
    /\ waste # <<>> /\ stock # <<>> /\ move_count = 2
    /\ ~flip(Last(waste)).face_up
    /\ flipped(Last(stock)).face_up

\* C27: can_click_position is true for Stock, true for Tableau(col, idx)
\* exactly when col < 7 and idx is the last index of the non-empty column
\* col, whatever the face of that card, and false for every Waste and
\* Foundation position, out-of-range columns and indices included.
ClickablePositions ==
    \A position \in Position :
        can_click_position(Self, position) <=>
            \/ position.kind = "Stock"
            \/ /\ position.kind = "Tableau"
               /\ position.col < 7
               /\ tableau[position.col] # <<>>
               /\ position.idx + 1 = Len(tableau[position.col])

ClickablePositionsWitness ==
    /\ action = "None"
    /\ \E col \in 1..(NumColumns - 1) :
          /\ ~Last(tableau[col]).face_up
          /\ can_click_position(Self, Tableau(col, Len(tableau[col]) - 1))
          /\ ~can_click_position(Self, Tableau(col, Len(tableau[col])))

\* C28: GameState::new() starts with move_count 0, game_won false and
\* draw_count Three; new_with_draw_count(d) is the same state with
\* draw_count = d, for d One and Three.
NewDefaults ==
    /\ \A deck \in Decks :
          /\ new(deck).move_count = 0
          /\ ~new(deck).game_won
          /\ new(deck).draw_count = "Three"
          /\ \A d \in DrawCount :
                LET g == new_with_draw_count(d, deck)
                IN /\ g.draw_count = d
                   /\ g.move_count = 0 /\ ~g.game_won
                   /\ FreshPiles(g.tableau, g.foundations, g.stock, g.waste)
    /\ action = "None" => move_count = 0 /\ ~game_won

NewDefaultsWitness ==
    /\ action = "None" /\ draw_count = "One" /\ move_count = 0
    /\ Len(stock) = 24

\* C29: a successful DealFromStock adds exactly 1 to move_count, whether it
\* deals one card, up to three cards, or recycles the whole waste.
DealCountsOne ==
    LET r == handle_action(Self, DealFromStockAction, create_deck)
    IN r.result = Ok => r.gs.move_count = move_count + 1

DealCountsOneWitness ==
    /\ action = "DealFromStock" /\ result = Ok /\ draw_count = "Three"
    /\ Len(waste) = 2 /\ stock = <<>> /\ move_count = 1

\* C30: when DealFromStock deals k cards the old waste is a prefix of the
\* new one, the k cards after it are the last k cards of the old stock in
\* reverse order (the old top of stock deepest), and the stock is left
\* without its last k cards.
DealOrder ==
    stock # <<>> =>
        LET g == handle_action(Self, DealFromStockAction, create_deck).gs
            k == cards_to_deal(draw_count, Len(stock))
        IN /\ Len(g.waste) = Len(waste) + k
           /\ SubSeq(g.waste, 1, Len(waste)) = waste
           /\ \A i \in 1..k :
                 Identity(g.waste[Len(waste) + i])
                     = Identity(stock[Len(stock) - i + 1])
           /\ g.stock = SubSeq(stock, 1, Len(stock) - k)

DealOrderWitness ==
    /\ action = "DealFromStock" /\ result = Ok /\ draw_count = "Three"
    /\ Len(waste) = 6 /\ Len(stock) = 18


\* C31: from a state with an empty waste and stock S, DealFromStock repeated
\* until the stock is empty and once more gives an empty waste and the stock
\* S again, card for card, in the same order and face-down; with 24 cards
\* in S that is 25 actions drawing one and 9 drawing three.
RECURSIVE RoundTrip(_, _)
RoundTrip(gs, n) ==
    LET r == handle_action(gs, DealFromStockAction, create_deck)
    IN IF gs.stock = <<>>
       THEN [gs |-> r.gs, count |-> n + 1, ok |-> r.result = Ok]
       ELSE IF r.result # Ok
       THEN [gs |-> r.gs, count |-> n + 1, ok |-> FALSE]
       ELSE RoundTrip(r.gs, n + 1)

DealRecycleRoundTrip ==
    (waste = <<>> /\ stock # <<>>) =>
        LET r == RoundTrip(Self, 0)
        IN /\ r.ok
           /\ r.gs.waste = <<>>
           /\ r.gs.stock = stock
           /\ \A i \in 1..Len(stock) : ~r.gs.stock[i].face_up
           /\ Len(stock) = 24 =>
                 r.count = IF draw_count = "One" THEN 25 ELSE 9

DealRecycleRoundTripWitness ==
    /\ action = "DealFromStock" /\ result = Ok /\ draw_count = "Three"
    /\ waste = <<>> /\ Len(stock) = 24 /\ move_count = 9

DealFrame ==
    LET g == handle_action(Self, DealFromStockAction, create_deck).gs
    IN /\ g.tableau = tableau
       /\ g.foundations = foundations
       /\ g.draw_count = draw_count
       /\ g.game_won = game_won
       /\ Len(g.stock) + Len(g.waste) = Len(stock) + Len(waste)

DealFrameWitness ==
    /\ action = "DealFromStock" /\ result = Ok
    /\ stock = <<>> /\ Len(waste) = 24

\* C34: a successful FlipCard(Tableau(col, idx)) changes the face_up flag
\* of the card at (col, idx) and move_count, and nothing else.
FlipFrame ==
    \A position \in Position :
        LET r == Flipped(position)
        IN r.result = Ok =>
             r.gs = [Self EXCEPT
                       !.tableau[position.col][position.idx + 1].face_up
                           = ~@,
                       !.move_count = @ + 1]

FlipFrameWitness ==
    /\ action = "FlipCard" /\ result = Ok /\ move_count = 1
    /\ \E col \in 1..6 :
          /\ Len(tableau[col]) = col
          /\ \A i \in 1..(col - 1) : ~tableau[col][i].face_up

\* C35: only DealFromStock, FlipCard and NewGame ever return Ok:
\* handle_action of MoveCard, for every from and to, and of Undo return an
\* error in every state and change nothing.
MoveAndUndoFail ==
    /\ \A from \in Position, to \in MovePosition :
          Moved(from, to).result # Ok /\ Moved(from, to).gs = Self
    /\ LET r == handle_action(Self, UndoAction, create_deck)
       IN r.result # Ok /\ r.gs = Self
    /\ result = Ok => action \in {"DealFromStock", "FlipCard", "NewGame"}

MoveAndUndoFailWitness ==
    /\ action = "Undo" /\ result = UndoNotImplemented /\ move_count > 0
    /\ waste # <<>>

\* C36: in a game played through handle_action the tableau stays as it was
\* dealt until the next NewGame and stock and waste hold 24 cards together;
\* so FlipCard never succeeds and DealFromStock never fails with EmptyPiles.
PlayedGameFrozen ==
    [][/\ action' # "NewGame" => tableau' = tableau
       /\ Len(stock') + Len(waste') = 24
       /\ ~(action' = "FlipCard" /\ result' = Ok)
       /\ result' # EmptyPiles]_vars

PlayedGameFrozenWitness ==
    /\ action = "FlipCard" /\ result = AlreadyFaceUp
    /\ move_count > 0 /\ waste # <<>>

\* C37: end_drag always leaves drag_state empty; it hands handle_action a
\* MoveCard from the drag's source_position to the drop position only when a
\* drag was active and the drop position is present and listed in the
\* drag's valid_drop_targets; otherwise it dispatches nothing and the game
\* state is unchanged.
EndDragContract ==
    \A drop_position \in DropPosition :
        LET e == end_drag(App, drop_position)
        IN /\ e.app.drag_state = <<>>
           /\ e.dispatched # <<>> =>
                 /\ drag_state # <<>>
                 /\ drop_position # <<>>
                 /\ Contains(drag_state[1].valid_drop_targets,
                             drop_position[1])
                 /\ e.dispatched =
                       <<MoveCardAction(drag_state[1].source_position,
                                        drop_position[1])>>
           /\ e.dispatched = <<>> =>
                 e.app.game_state = Self /\ e.result = "None"

\* a drop on a listed target has dispatched its MoveCard
EndDragContractWitness ==
    /\ action = "EndDrag" /\ result = MoveNotImplemented
    /\ drag_state = <<>>

\* C38: start_drag enters the dragging state only when the position has a
\* non-empty liftable run, which it then holds with the position as source;
\* with an empty run drag_state is left as it was; the game state is never
\* modified.
StartDragContract ==
    \A position \in Position :
        LET a == start_drag(App, position)
            cards == Run(position)
        IN /\ a.game_state = Self
           /\ cards = <<>> => a.drag_state = drag_state
           /\ cards # <<>> =>
                 /\ a.drag_state # <<>>
                 /\ a.drag_state[1].dragged_cards = cards
                 /\ a.drag_state[1].source_position = position

\* a two-card run is being dragged
StartDragContractWitness ==
    /\ action = "StartDrag" /\ drag_state # <<>>
    /\ Len(drag_state[1].dragged_cards) = 2
    /\ \E position \in Position : Run(position) = <<>>

\* face-up tops of the tableau columns and of the waste
Leads ==
    {Last(tableau[col]) : col \in {c \in 0..(NumColumns - 1) :
                                      tableau[c] # <<>>}}
      \cup (IF waste = <<>> THEN {} ELSE {Last(waste)})

\* runs handed to get_valid_drop_targets: every liftable run, the empty run
\* and two-card slices led by each top card
DragRuns ==
    {Run(position) : position \in Position}
      \cup {<<card, card>> : card \in Leads}

DragSources ==
    {Tableau(col, 0) : col \in 0..(NumColumns - 1)}
      \cup {StockPos, Waste(0), Foundation(0)}

ExpectedDropTargets(cards, source) ==
    IF cards = <<>> THEN {}
    ELSE {Tableau(col, Len(tableau[col])) :
             col \in {c \in 0..(NumColumns - 1) :
                        /\ ~(source.kind = "Tableau" /\ source.col = c)
                        /\ TableauPlacementLegal(cards[1], c)}}
           \cup (IF Len(cards) = 1
                 THEN {Foundation(f) :
                          f \in {g \in 0..(NumFoundations - 1) :
                                    can_place_on_foundation(
                                        cards[1],
                                        Vec_last(foundations[g]))}}
                 ELSE {})

\* C39: get_valid_drop_targets(cards, source) lists, once each, exactly
\* Tableau(col, len(col)) for every column other than the source's own
\* where cards[0] is a King on an empty column or can be placed on the top
\* card, and, only for a single card, Foundation(f) for every foundation
\* that takes cards[0]; it is empty for an empty run and holds no
\* foundation for a multi-card run.
ValidDropTargets ==
    LET runs == DragRuns
    IN \A cards \in runs, source \in DragSources :
        LET targets == get_valid_drop_targets(App, cards, source)
            listed == {targets[i] : i \in 1..Len(targets)}
        IN /\ listed = ExpectedDropTargets(cards, source)
           /\ Cardinality(listed) = Len(targets)
           /\ cards = <<>> => targets = <<>>
           /\ Len(cards) > 1 => \A t \in listed : t.kind # "Foundation"

\* the drag of a single card lists a tableau column and a foundation
ValidDropTargetsWitness ==
    /\ action = "StartDrag" /\ drag_state # <<>>
    /\ Len(drag_state[1].dragged_cards) = 1
    /\ \E i, j \in 1..Len(drag_state[1].valid_drop_targets) :
          /\ drag_state[1].valid_drop_targets[i].kind = "Tableau"
          /\ drag_state[1].valid_drop_targets[j].kind = "Foundation"

=============================================================================
